---- MODULE Spec2Model ----
(***************************************************************************)
(* Model of bert_qa_ja/run_qa.py: the training label aligner               *)
(* (prepare_train_features), the inference feature builder                 *)
(* (prepare_validation_features), the evaluation / prediction sample       *)
(* selection of main, and post_processing_function.                        *)
(*                                                                         *)
(* Python lists are sequences; a Python index p is kept 0-based and read   *)
(* with PyGet, which also gives negative indices their Python meaning.     *)
(* Character offsets are pairs <<start, end>>.                             *)
(*                                                                         *)
(* Five specifications share the variables: SpecTrain (one call of         *)
(* prepare_train_features), SpecEval (the evaluation / prediction          *)
(* preprocessing of main), SpecPost (preprocessing, the model's logits,    *)
(* post_processing_function), SpecSetup (main from the parsed arguments    *)
(* through the evaluation) and SpecMap (dataset.map over batches).         *)
(***************************************************************************)
EXTENDS Integers, Sequences, FiniteSets, TLC

\* ---------------------------------------------------------------- bounds
\* Largest number of context tokens of an example.
MaxCtxTokens == 4
\* Largest number of question tokens of an example.
MaxQuestionTokens == 2
\* Largest max_seq_length tried.
MaxSeqLength == 8
\* Largest doc_stride tried.
MaxStride == 2
\* Largest length (characters) of a gold answer text.
MaxAnswerChars == 4
\* Characters per token of the modelled tokenizer.
TokenChars == 2
\* Largest number of examples of an evaluation / prediction split.
MaxEvalExamples == 2
\* Largest n_best_size tried.
MaxNBest == 2
\* Largest max_answer_length tried.
MaxAnswerLength == 2
\* Largest number of rows of a dataset handed to dataset.map.
MaxMapExamples == 3

\* ------------------------------------------------------ python list reads
\* sequence_ids(i) gives None for special and padding tokens.
NoSeq == -1

PyInRange(list, p) == p >= -Len(list) /\ p < Len(list)

PyGet(list, p) == IF p >= 0 THEN list[p + 1] ELSE list[Len(list) + p + 1]

Min2(a, b) == IF a <= b THEN a ELSE b

\* ------------------------------------------------------------- tokenizer
\* The tokenizer is an external collaborator.  Its contract: special and
\* padding tokens carry offsets (0, 0) and sequence id None; the first text
\* has sequence id 0 and the second 1; each token's offset is its character
\* range in its own text; the truncated text is cut into windows of at most
\* max_length minus the other tokens, consecutive windows sharing `stride`
\* tokens, the last window ending at the text's end.
cls_token_id == "[CLS]"

Tok(id, seq, off) == [id |-> id, seq |-> seq, off |-> off]

\* Token k (1-based) of a text whose tokens are TokenChars wide and `gap`
\* characters apart.
TokenOffset(k, gap) ==
    << (k - 1) * (TokenChars + gap), (k - 1) * (TokenChars + gap) + TokenChars >>

TextTokens(n, gap, seq, id) ==
    [k \in 1..n |-> Tok(id, seq, TokenOffset(k, gap))]

\* Number of characters of a text of n tokens.
TextLen(n, gap) == IF n = 0 THEN 0 ELSE n * TokenChars + (n - 1) * gap

RECURSIVE Windows(_, _, _, _)
Windows(n, from, size, stride) ==
    LET to == Min2(from + size, n)
    IN  IF to >= n
        THEN << <<from, to>> >>
        ELSE << <<from, to>> >> \o Windows(n, from + size - stride, size, stride)

Repeat(x, n) == [k \in 1..n |-> x]

\* Room left for the truncated (context) text in one chunk.
WindowSize(ex, max_seq_length) == max_seq_length - ex.nq - 3

\* The tokenizer call accepts the configuration.
TokenizerAccepts(ex, max_seq_length, doc_stride) ==
    /\ WindowSize(ex, max_seq_length) >= 1
    /\ doc_stride < WindowSize(ex, max_seq_length)

ChunkTokens(ex, win, pad_on_right, max_seq_length, pad_to_max_length) ==
    LET cseq == IF pad_on_right THEN 1 ELSE 0
        qseq == IF pad_on_right THEN 0 ELSE 1
        all  == TextTokens(ex.nctx, ex.gap, cseq, "c")
        ctx  == SubSeq(all, win[1] + 1, win[2])
        qst  == TextTokens(ex.nq, 1, qseq, "q")
        cls  == << Tok(cls_token_id, NoSeq, <<0, 0>>) >>
        sep  == << Tok("[SEP]", NoSeq, <<0, 0>>) >>
        core == IF pad_on_right
                THEN cls \o qst \o sep \o ctx \o sep
                ELSE cls \o ctx \o sep \o qst \o sep
        npad == IF pad_to_max_length /\ Len(core) < max_seq_length
                THEN max_seq_length - Len(core) ELSE 0
        pad  == Repeat(Tok("[PAD]", NoSeq, <<0, 0>>), npad)
    IN  IF pad_on_right THEN core \o pad ELSE pad \o core

\* One produced chunk: the parallel arrays of the tokenizer output.
Feature(tokens, sample) ==
    [input_ids      |-> [k \in 1..Len(tokens) |-> tokens[k].id],
     sequence_ids   |-> [k \in 1..Len(tokens) |-> tokens[k].seq],
     offset_mapping |-> [k \in 1..Len(tokens) |-> tokens[k].off],
     sample         |-> sample]

\* The chunks of example number `sample` (0-based) of the batch.
TokenizeExample(ex, sample, pad_on_right, max_seq_length, doc_stride, pad_to_max_length) ==
    LET wins == Windows(ex.nctx, 0, WindowSize(ex, max_seq_length), doc_stride)
    IN  [w \in 1..Len(wins) |->
            Feature(ChunkTokens(ex, wins[w], pad_on_right, max_seq_length,
                                pad_to_max_length), sample)]

RECURSIVE TokenizeFrom(_, _, _, _, _, _)
TokenizeFrom(examples, k, pad_on_right, max_seq_length, doc_stride, pad_to_max_length) ==
    IF k > Len(examples) THEN << >>
    ELSE TokenizeExample(examples[k], k - 1, pad_on_right, max_seq_length,
                         doc_stride, pad_to_max_length)
         \o TokenizeFrom(examples, k + 1, pad_on_right, max_seq_length,
                         doc_stride, pad_to_max_length)

Tokenize(examples, pad_on_right, max_seq_length, doc_stride, pad_to_max_length) ==
    TokenizeFrom(examples, 1, pad_on_right, max_seq_length, doc_stride,
                 pad_to_max_length)

\* ------------------------------------------------ prepare_train_features
\* input_ids.index(cls_token_id); Len(input_ids) stands for ValueError.
RECURSIVE ListIndexFrom(_, _, _)
ListIndexFrom(list, x, p) ==
    IF p >= Len(list) THEN Len(list)
    ELSE IF list[p + 1] = x THEN p
    ELSE ListIndexFrom(list, x, p + 1)

\* Mutant: the CLS token taken to be the first token of every feature.
ClsIndexFirstToken(input_ids) == 0

ClsIndex(input_ids) == ListIndexFrom(input_ids, cls_token_id, 0)

ContextIndex(pad_on_right) == IF pad_on_right THEN 1 ELSE 0

\* while sequence_ids[token_start_index] != ctx: token_start_index += 1
\* A result outside the list stands for the IndexError of the read.
RECURSIVE ScanForward(_, _, _)
ScanForward(sequence_ids, p, ctx) ==
    IF ~PyInRange(sequence_ids, p) THEN p
    ELSE IF PyGet(sequence_ids, p) # ctx THEN ScanForward(sequence_ids, p + 1, ctx)
    ELSE p

\* while sequence_ids[token_end_index] != ctx: token_end_index -= 1
RECURSIVE ScanBackward(_, _, _)
ScanBackward(sequence_ids, p, ctx) ==
    IF ~PyInRange(sequence_ids, p) THEN p
    ELSE IF PyGet(sequence_ids, p) # ctx THEN ScanBackward(sequence_ids, p - 1, ctx)
    ELSE p

\* Mutant: the test forgets the end of the answer.
AnswerOutOfSpanStartOnly(offsets, token_start_index, token_end_index, start_char, end_char) ==
    ~ (PyGet(offsets, token_start_index)[1] <= start_char)

\* The answer is out of the span of this feature.
AnswerOutOfSpan(offsets, token_start_index, token_end_index, start_char, end_char) ==
    ~ ( /\ PyGet(offsets, token_start_index)[1] <= start_char
        /\ PyGet(offsets, token_end_index)[2] >= end_char )

\* while token_start_index < len(offsets)
\*       and offsets[token_start_index][0] <= start_char: token_start_index += 1
RECURSIVE NarrowStart(_, _, _)
NarrowStart(offsets, p, start_char) ==
    IF p < Len(offsets) /\ PyGet(offsets, p)[1] <= start_char
    THEN NarrowStart(offsets, p + 1, start_char)
    ELSE p

\* while offsets[token_end_index][1] >= end_char: token_end_index -= 1
\* A result outside the list stands for the IndexError of the read.
RECURSIVE NarrowEnd(_, _, _)
NarrowEnd(offsets, p, end_char) ==
    IF ~PyInRange(offsets, p) THEN p
    ELSE IF PyGet(offsets, p)[2] >= end_char THEN NarrowEnd(offsets, p - 1, end_char)
    ELSE p

Labelled(s, e) == [error |-> "none", start |-> << s >>, end |-> << e >>]

Raised(err, starts) == [error |-> err, start |-> starts, end |-> << >>]

\* One iteration of the labelling loop: what it appends to start_positions
\* and end_positions, and the exception it raises, if any.
LabelFeature(feature, answers, pad_on_right) ==
    LET input_ids    == feature.input_ids
        offsets      == feature.offset_mapping
        sequence_ids == feature.sequence_ids
        cls_index    == ClsIndex(input_ids)
        ctx          == ContextIndex(pad_on_right)
        start_char   == answers.answer_start[1]
        end_char     == start_char + Len(answers.text[1])
        first        == ScanForward(sequence_ids, 0, ctx)
        last         == ScanBackward(sequence_ids, Len(input_ids) - 1, ctx)
        s            == NarrowStart(offsets, first, start_char)
        e            == NarrowEnd(offsets, last, end_char)
    IN  IF cls_index >= Len(input_ids) THEN Raised("ValueError", << >>)
        ELSE IF Len(answers.answer_start) = 0 THEN Labelled(cls_index, cls_index)
        ELSE IF ~PyInRange(sequence_ids, first) THEN Raised("IndexError", << >>)
        ELSE IF ~PyInRange(sequence_ids, last) THEN Raised("IndexError", << >>)
        ELSE IF AnswerOutOfSpan(offsets, first, last, start_char, end_char)
             THEN Labelled(cls_index, cls_index)
        ELSE IF ~PyInRange(offsets, e) THEN Raised("IndexError", << s - 1 >>)
        ELSE Labelled(s - 1, e + 1)

\* Mutant: the answers are read at index 0 of the batch for every feature.
AnswersOfFirst(batch, feature) == batch[1].answers

\* sample_index = sample_mapping[i]; answers = examples[a_col_name][sample_index]
AnswersOf(batch, feature) == batch[feature.sample + 1].answers

\* The labelling loop from index k (0-based) on: the labels appended, or the
\* exception that ends the call.
RECURSIVE LabelFrom(_, _, _, _)
LabelFrom(features, batch, k, pad_on_right) ==
    IF k >= Len(features) THEN [error |-> "none", start |-> << >>, end |-> << >>]
    ELSE LET r == LabelFeature(features[k + 1], AnswersOf(batch, features[k + 1]),
                               pad_on_right)
             rest == LabelFrom(features, batch, k + 1, pad_on_right)
         IN  IF r.error # "none" THEN [error |-> r.error, start |-> << >>, end |-> << >>]
             ELSE IF rest.error # "none" THEN rest
             ELSE [error |-> "none", start |-> r.start \o rest.start,
                   end |-> r.end \o rest.end]

\* prepare_train_features(batch): the rows it returns, or the exception.
PrepareTrainFeatures(batch, a) ==
    LET features == Tokenize(batch, a.pad_on_right, a.max_seq_length, a.doc_stride,
                             a.pad_to_max_length)
        labels   == LabelFrom(features, batch, 0, a.pad_on_right)
    IN  [error |-> labels.error,
         rows  |-> IF labels.error # "none" THEN << >>
                   ELSE [k \in 1..Len(features) |->
                           [input_ids       |-> features[k].input_ids,
                            start_positions |-> labels.start[k],
                            end_positions   |-> labels.end[k]]]]

\* ----------------------------------------------------------------- state
VARIABLES
    pc,                 \* where the run is
    args,               \* data_args and the tokenizer's padding side
    examples,           \* the batch (training) or the dataset split (evaluation)
    tokenized_examples, \* the features the tokenizer produced for the batch
    i,                  \* index (0-based) of the labelling loop
    start_positions,    \* tokenized_examples["start_positions"]
    end_positions,      \* tokenized_examples["end_positions"]
    eval_examples,      \* eval_examples / predict_examples of main
    eval_dataset,       \* eval_dataset / predict_dataset of main
    predictions,        \* the model's (start logits, end logits), one pair per feature
    extracted,          \* what the answer extractor recorded, one record per example
    eval_prediction,    \* the EvalPrediction post_processing_function returns
    batches,            \* dataset.map: the batches, as ranges <<first, last>> of rows
    outputs,            \* dataset.map: what the mapped function gave for each batch
    train_dataset       \* train_dataset of __preprocess_train_dataset

trainVars == << tokenized_examples, i, start_positions, end_positions >>

evalVars == << eval_examples, eval_dataset >>

postVars == << predictions, extracted, eval_prediction >>

mapVars == << batches, outputs, train_dataset >>

vars == << pc, args, examples, trainVars, evalVars, postVars, mapVars >>

\* ---------------------------------------------------------------- inputs
Letters == << "a", "b", "c", "d", "e", "f", "g" >>

\* Example identifiers, unique within a split.
Ids == << "e1", "e2", "e3", "e4", "e5" >>

\* The context text of n tokens: token k is TokenChars copies of its letter,
\* tokens are `gap` blanks apart.
ContextText(n, gap) ==
    [p \in 1..TextLen(n, gap) |->
        IF (p - 1) % (TokenChars + gap) < TokenChars
        THEN Letters[(((p - 1) \div (TokenChars + gap)) % Len(Letters)) + 1]
        ELSE " "]

NoAnswers == [answer_start |-> << >>, text |-> << >>]

\* text[s:e] for 0 <= s and e within the text.
Slice(text, s, e) == IF e <= s THEN << >> ELSE SubSeq(text, s + 1, e)

\* A gold answer is a span of the context text.
GoldAnswers(n, gap) ==
    UNION { { [answer_start |-> << s >>,
               text |-> << Slice(ContextText(n, gap), s, s + len) >>] :
              len \in 0..Min2(MaxAnswerChars, TextLen(n, gap) - s) } :
            s \in 0..TextLen(n, gap) }

AnswerSets(n, gap) == {NoAnswers} \cup GoldAnswers(n, gap)

Example(id, nq, nctx, gap, answers) ==
    [id |-> id, nq |-> nq, nctx |-> nctx, gap |-> gap, answers |-> answers]

TrainExamples ==
    UNION { { Example("e0", nq, n, gap, a) : a \in AnswerSets(n, gap) } :
            nq \in 1..MaxQuestionTokens, n \in 0..MaxCtxTokens, gap \in 0..1 }

\* An Optional[int]: << >> is None, << n >> is n.
OptionalInts(S) == { << >> } \cup { << n >> : n \in S }

TokenizerArgs ==
    [pad_on_right : BOOLEAN, max_seq_length : 1..MaxSeqLength,
     doc_stride : 0..MaxStride, pad_to_max_length : BOOLEAN]

TrainArgs == TokenizerArgs

\* ------------------------------------------------- training preprocessing
TrainInit ==
    /\ pc = "train_call"
    /\ args \in TrainArgs
    /\ examples \in { << ex >> : ex \in TrainExamples }
    /\ \A k \in 1..Len(examples) :
          TokenizerAccepts(examples[k], args.max_seq_length, args.doc_stride)
    /\ tokenized_examples = << >>
    /\ i = 0
    /\ start_positions = << >>
    /\ end_positions = << >>
    /\ eval_examples = << >>
    /\ eval_dataset = << >>
    /\ predictions = << >>
    /\ extracted = << >>
    /\ eval_prediction = << >>
    /\ batches = << >>
    /\ outputs = << >>
    /\ train_dataset = << >>

\* prepare_train_features, up to the labelling loop.
TrainTokenize ==
    /\ pc = "train_call"
    /\ tokenized_examples' = Tokenize(examples, args.pad_on_right, args.max_seq_length,
                                      args.doc_stride, args.pad_to_max_length)
    /\ pc' = "train_loop"
    /\ UNCHANGED << args, examples, i, start_positions, end_positions, evalVars, postVars, mapVars >>

\* One iteration of `for i, offsets in enumerate(offset_mapping)`.
TrainLabel ==
    /\ pc = "train_loop"
    /\ i < Len(tokenized_examples)
    /\ LET feature == tokenized_examples[i + 1]
           answers == AnswersOf(examples, feature)
           r       == LabelFeature(feature, answers, args.pad_on_right)
       IN  /\ start_positions' = start_positions \o r.start
           /\ end_positions' = end_positions \o r.end
           /\ IF r.error = "none"
              THEN i' = i + 1 /\ pc' = "train_loop"
              ELSE i' = i /\ pc' = r.error
    /\ UNCHANGED << args, examples, tokenized_examples, evalVars, postVars, mapVars >>

\* return tokenized_examples
TrainReturn ==
    /\ pc = "train_loop"
    /\ i = Len(tokenized_examples)
    /\ pc' = "train_done"
    /\ UNCHANGED << args, examples, trainVars, evalVars, postVars, mapVars >>

TrainNext == TrainTokenize \/ TrainLabel \/ TrainReturn

SpecTrain == TrainInit /\ [][TrainNext]_vars

\* ------------------------------------------- prepare_validation_features
\* The "not applicable" offset (None).
None == << >>

\* Mutant: the offsets of every text token are kept, the question's too.
MaskOffsetsKeepText(offset_mapping, sequence_ids, context_index) ==
    [k \in 1..Len(offset_mapping) |->
        IF sequence_ids[k] # NoSeq THEN offset_mapping[k] ELSE None]

\* [(o if sequence_ids[k] == context_index else None) for k, o in enumerate(...)]
MaskOffsets(offset_mapping, sequence_ids, context_index) ==
    [k \in 1..Len(offset_mapping) |->
        IF sequence_ids[k] = context_index THEN offset_mapping[k] ELSE None]

ValidationFeature(feature, batch, pad_on_right) ==
    [input_ids      |-> feature.input_ids,
     offset_mapping |-> MaskOffsets(feature.offset_mapping, feature.sequence_ids,
                                    ContextIndex(pad_on_right)),
     example_id     |-> batch[feature.sample + 1].id]

PrepareValidationFeatures(batch, a) ==
    LET tokenized == Tokenize(batch, a.pad_on_right, a.max_seq_length,
                              a.doc_stride, a.pad_to_max_length)
    IN  [k \in 1..Len(tokenized) |-> ValidationFeature(tokenized[k], batch, a.pad_on_right)]

\* ------------------------------------ main: evaluation / prediction split
\* dataset.select(range(n)), for n within the dataset.
SelectRange(dataset, n) == SubSeq(dataset, 1, n)

\* eval_examples.select(range(max_eval_samples)) when the limit is set.
SelectExamples(dataset, max_samples) ==
    IF max_samples # << >> THEN SelectRange(dataset, max_samples[1]) ELSE dataset

\* eval_dataset.select(range(max_eval_samples)) when the limit is set.
SelectFeatures(dataset, max_samples) ==
    IF max_samples # << >> THEN SelectRange(dataset, max_samples[1]) ELSE dataset

\* The datasets of the evaluation run: examples "e1", "e2", ... over one
\* tokenizer geometry.
RECURSIVE EvalSplits(_, _)
EvalSplits(n, gap) ==
    IF n = 0 THEN { << >> }
    ELSE { Append(d, Example(Ids[n], 1, nctx, gap, NoAnswers)) :
             d \in EvalSplits(n - 1, gap), nctx \in 0..MaxCtxTokens }

EvalInit ==
    /\ pc = "eval_call"
    /\ \E n \in 1..MaxEvalExamples, gap \in 0..1 :
          /\ examples \in EvalSplits(n, gap)
          /\ \E t \in TokenizerArgs, stage \in {"eval", "predict"}, m \in OptionalInts(0..n) :
                args = [pad_on_right |-> t.pad_on_right,
                        max_seq_length |-> t.max_seq_length,
                        doc_stride |-> t.doc_stride,
                        pad_to_max_length |-> t.pad_to_max_length,
                        stage |-> stage,
                        max_samples |-> m]
    /\ \A k \in 1..Len(examples) :
          TokenizerAccepts(examples[k], args.max_seq_length, args.doc_stride)
    /\ tokenized_examples = << >>
    /\ i = 0
    /\ start_positions = << >>
    /\ end_positions = << >>
    /\ eval_examples = << >>
    /\ eval_dataset = << >>
    /\ predictions = << >>
    /\ extracted = << >>
    /\ eval_prediction = << >>
    /\ batches = << >>
    /\ outputs = << >>
    /\ train_dataset = << >>

\* eval_examples = datasets["validation"], cut to max_eval_samples
\* (predict_examples = datasets["test"], cut to max_predict_samples).
EvalSelectExamples ==
    /\ pc = "eval_call"
    /\ eval_examples' = SelectExamples(examples, args.max_samples)
    /\ pc' = "eval_selected"
    /\ UNCHANGED << args, examples, trainVars, eval_dataset, postVars, mapVars >>

\* eval_dataset = eval_examples.map(prepare_validation_features, batched=True)
\* The tokenizer call raises when the stride does not fit the window.
EvalMap ==
    /\ pc = "eval_selected"
    /\ IF \A k \in 1..Len(eval_examples) :
             TokenizerAccepts(eval_examples[k], args.max_seq_length, args.doc_stride)
       THEN /\ eval_dataset' = PrepareValidationFeatures(eval_examples, args)
            /\ pc' = "eval_mapped"
       ELSE /\ eval_dataset' = eval_dataset
            /\ pc' = "TokenizerError"
    /\ UNCHANGED << args, examples, trainVars, eval_examples, postVars, mapVars >>

\* eval_dataset = eval_dataset.select(range(max_eval_samples))
EvalSelectFeatures ==
    /\ pc = "eval_mapped"
    /\ eval_dataset' = SelectFeatures(eval_dataset, args.max_samples)
    /\ pc' = "eval_ready"
    /\ UNCHANGED << args, examples, trainVars, eval_examples, postVars, mapVars >>

EvalNext == EvalSelectExamples \/ EvalMap \/ EvalSelectFeatures

SpecEval == EvalInit /\ [][EvalNext]_vars

\* ------------------------------------------------------ answer extractor
\* postprocess_qa_predictions (bert_qa_ja.utils_qa), by its specification:
\* the null score of an example, the n-best shortlists, the pooled and
\* sorted candidates, the fallback answer and the final answer.

\* The features (1-based indices, in order) of an example.
FeaturesOf(ex, features) ==
    { k \in 1..Len(features) : features[k].example_id = ex.id }

\* start-logit[anchor] + end-logit[anchor] of one feature.
FeatureNullScore(feature, prediction) ==
    prediction.start_logits[ClsIndex(feature.input_ids) + 1]
        + prediction.end_logits[ClsIndex(feature.input_ids) + 1]

\* The feature achieving the minimum null score (the first of them).
MinNullFeature(ex, features, preds) ==
    CHOOSE k \in FeaturesOf(ex, features) :
        \A j \in FeaturesOf(ex, features) :
            \/ FeatureNullScore(features[k], preds[k]) < FeatureNullScore(features[j], preds[j])
            \/ /\ FeatureNullScore(features[k], preds[k]) = FeatureNullScore(features[j], preds[j])
               /\ k <= j

NullScore(ex, features, preds) ==
    FeatureNullScore(features[MinNullFeature(ex, features, preds)],
                     preds[MinNullFeature(ex, features, preds)])

\* Position a comes before position b in the descending, stable order.
RanksBefore(logits, a, b) ==
    logits[a + 1] > logits[b + 1] \/ (logits[a + 1] = logits[b + 1] /\ a < b)

\* The positions (0-based) of the n largest logits, ties to the lower index.
TopIndices(logits, n) ==
    { a \in 0..(Len(logits) - 1) :
        Cardinality({ b \in 0..(Len(logits) - 1) : RanksBefore(logits, b, a) }) < n }

Candidate(k, s, e, score, text) ==
    [feature |-> k, start |-> s, end |-> e, score |-> score, text |-> text]

\* The candidate answers of feature k.
FeatureCandidates(k, feature, prediction, context, n_best_size, max_answer_length) ==
    { Candidate(k, s, e, prediction.start_logits[s + 1] + prediction.end_logits[e + 1],
                Slice(context, feature.offset_mapping[s + 1][1],
                      feature.offset_mapping[e + 1][2])) :
        <<s, e>> \in
            { se \in TopIndices(prediction.start_logits, n_best_size)
                     \X TopIndices(prediction.end_logits, n_best_size) :
                /\ feature.offset_mapping[se[1] + 1] # None
                /\ feature.offset_mapping[se[2] + 1] # None
                /\ se[1] <= se[2]
                /\ se[2] - se[1] + 1 <= max_answer_length } }

\* Score descending, then feature order, then start index, then end index.
CandidateBefore(a, b) ==
    \/ a.score > b.score
    \/ a.score = b.score /\ a.feature < b.feature
    \/ a.score = b.score /\ a.feature = b.feature /\ a.start < b.start
    \/ a.score = b.score /\ a.feature = b.feature /\ a.start = b.start /\ a.end < b.end

RECURSIVE SortPool(_)
SortPool(S) ==
    IF S = {} THEN << >>
    ELSE LET first == CHOOSE a \in S : \A b \in S \ {a} : CandidateBefore(a, b)
         IN  << first >> \o SortPool(S \ {first})

\* The pseudo-answer standing in for an empty pool: the anchor of the
\* feature with the minimum null score.  The specification leaves its score
\* open: "zero" scores it 0, "anchor" scores it with the null score.
FallbackCandidate(ex, features, preds, fallback) ==
    LET k == MinNullFeature(ex, features, preds)
    IN  Candidate(k, ClsIndex(features[k].input_ids), ClsIndex(features[k].input_ids),
                  IF fallback = "zero" THEN 0 ELSE NullScore(ex, features, preds),
                  << cls_token_id >>)

\* The pooled candidates of an example, sorted, never empty.
Pool(ex, features, preds, n_best_size, max_answer_length, fallback) ==
    LET pool == SortPool(UNION { FeatureCandidates(k, features[k], preds[k],
                                     ContextText(ex.nctx, ex.gap),
                                     n_best_size, max_answer_length) :
                                 k \in FeaturesOf(ex, features) })
    IN  IF Len(pool) = 0 \/ (Len(pool) = 1 /\ pool[1].text = << >>)
        THEN << FallbackCandidate(ex, features, preds, fallback) >>
        ELSE pool

\* The best candidate with a non-empty text.
BestNonNull(pool) ==
    pool[CHOOSE k \in 1..Len(pool) :
            /\ pool[k].text # << >>
            /\ \A j \in 1..(k - 1) : pool[j].text = << >>]

\* exp(d), in thousandths, for the score differences 0, -1, -2, ...
ExpThousandths == << 1000, 368, 135, 50, 18, 7, 2 >>

ExpOf(d) == ExpThousandths[1 - d]

SetMax2(a, b) == IF a >= b THEN a ELSE b

RECURSIVE SumExp(_, _, _)
SumExp(pool, k, top) ==
    IF k > Len(pool) THEN 0 ELSE ExpOf(pool[k].score - top) + SumExp(pool, k + 1, top)

\* The softmax share of the null score among the pooled scores, in
\* thousandths.
NullProbability(null_score, pool) ==
    LET top == SetMax2(null_score, pool[1].score)
    IN  (1000 * ExpOf(null_score - top))
            \div (ExpOf(null_score - top) + SumExp(pool, 1, top))

\* What the extractor decides and records for one example.
ExtractExample(ex, features, preds, version_2_with_negative, n_best_size, max_answer_length, null_score_diff_threshold, fallback) ==
    LET pool       == Pool(ex, features, preds, n_best_size, max_answer_length, fallback)
        null_score == NullScore(ex, features, preds)
        best       == BestNonNull(pool)
        score_diff == null_score - best.score
    IN  [id               |-> ex.id,
         text             |-> IF ~version_2_with_negative THEN pool[1].text
                              ELSE IF score_diff > null_score_diff_threshold THEN << >>
                              ELSE best.text,
         null_score       |-> null_score,
         best_non_null    |-> best,
         null_probability |-> NullProbability(null_score, pool),
         nbest            |-> pool]

PostprocessQaPredictions(exs, features, preds, version_2_with_negative, n_best_size, max_answer_length, null_score_diff_threshold, fallback) ==
    [k \in 1..Len(exs) |->
        ExtractExample(exs[k], features, preds, version_2_with_negative, n_best_size,
                       max_answer_length, null_score_diff_threshold, fallback)]

\* ---------------------------------------------- post_processing_function
\* Mutant: version_2_with_negative is not forwarded (the extractor's default).
VersionArgDefault(a) == FALSE

\* version_2_with_negative=data_args.version_2_with_negative
VersionArg(a) == a.version_2_with_negative

\* Mutant: the threshold is forwarded with its sign flipped.
ThresholdArgNegated(a) == 0 - a.null_score_diff_threshold

\* null_score_diff_threshold=data_args.null_score_diff_threshold
ThresholdArg(a) == a.null_score_diff_threshold

\* Mutant: n_best_size and max_answer_length are forwarded swapped.
NBestArgAnswerLength(a) == a.max_answer_length

\* n_best_size=data_args.n_best_size
NBestArg(a) == a.n_best_size

\* The extractor's records for the call post_processing_function makes.
ExtractorCall(exs, features, preds, a) ==
    PostprocessQaPredictions(exs, features, preds, VersionArg(a), NBestArg(a),
                             a.max_answer_length, ThresholdArg(a), a.fallback)

\* The no_answer_probability written into every formatted prediction.
NoAnswerProbabilityEmitted == 0

\* The EvalPrediction built from the extractor's {id: text}.
FormatPredictions(exs, out, a) ==
    [predictions |->
        IF a.version_2_with_negative
        THEN [k \in 1..Len(out) |->
                [id |-> out[k].id, prediction_text |-> out[k].text,
                 no_answer_probability |-> NoAnswerProbabilityEmitted]]
        ELSE [k \in 1..Len(out) |->
                [id |-> out[k].id, prediction_text |-> out[k].text]],
     label_ids |-> [k \in 1..Len(exs) |-> [id |-> exs[k].id, answers |-> exs[k].answers]]]

\* ------------------------------------------ evaluation: predict, extract
LogitValues == {-1, 1}

Thresholds == {-1, 0, 1}

PostSplits ==
    { << Example(Ids[1], 1, n, 0, NoAnswers) >> : n \in 1..2 }
    \cup { << Example(Ids[1], 1, 1, 0, NoAnswers), Example(Ids[2], 1, 1, 0, NoAnswers) >> }

\* The max_seq_length leaving room for n context tokens beside the one
\* question token and the three special tokens.
PostSeqLength(n) == n + 1 + 3

PostArgs ==
    [pad_on_right : BOOLEAN, max_seq_length : { PostSeqLength(1), PostSeqLength(2) },
     doc_stride : {0}, pad_to_max_length : {FALSE},
     stage : {"eval"}, max_samples : { << >> },
     version_2_with_negative : BOOLEAN, n_best_size : 1..MaxNBest,
     max_answer_length : 1..MaxAnswerLength, null_score_diff_threshold : Thresholds,
     fallback : {"zero", "anchor"}]

\* The threshold is read only in negative-answer runs; the other runs keep
\* its default.
PostInit ==
    /\ pc = "eval_call"
    /\ examples \in PostSplits
    /\ args \in PostArgs
    /\ args.max_seq_length = PostSeqLength(2) => (Len(examples) = 1 /\ examples[1].nctx = 2)
    /\ ~args.version_2_with_negative => args.null_score_diff_threshold = 0
    /\ tokenized_examples = << >>
    /\ i = 0
    /\ start_positions = << >>
    /\ end_positions = << >>
    /\ eval_examples = << >>
    /\ eval_dataset = << >>
    /\ predictions = << >>
    /\ extracted = << >>
    /\ eval_prediction = << >>
    /\ batches = << >>
    /\ outputs = << >>
    /\ train_dataset = << >>

\* The logit vectors the model may give for a feature: any value at the
\* anchor and at the context tokens, the lowest value elsewhere.
LogitVectors(feature) ==
    { v \in [1..Len(feature.input_ids) -> LogitValues] :
        \A p \in 1..Len(feature.input_ids) :
            (feature.offset_mapping[p] = None /\ p # ClsIndex(feature.input_ids) + 1)
                => \A x \in LogitValues : v[p] <= x }

FeaturePredictions(feature) ==
    [start_logits : LogitVectors(feature), end_logits : LogitVectors(feature)]

RECURSIVE AllPredictions(_, _)
AllPredictions(features, n) ==
    IF n = 0 THEN { << >> }
    ELSE { Append(ps, p) : ps \in AllPredictions(features, n - 1),
                           p \in FeaturePredictions(features[n]) }

\* trainer.evaluate(): the model's logits for every feature.
ModelPredict ==
    /\ pc = "eval_ready"
    /\ predictions' \in AllPredictions(eval_dataset, Len(eval_dataset))
    /\ pc' = "predicted"
    /\ UNCHANGED << args, examples, trainVars, evalVars, extracted, eval_prediction, mapVars >>

\* post_processing_function(eval_examples, eval_dataset, predictions)
PostProcess ==
    /\ pc = "predicted"
    /\ extracted' = ExtractorCall(eval_examples, eval_dataset, predictions, args)
    /\ eval_prediction' = FormatPredictions(eval_examples, extracted', args)
    /\ pc' = "post_done"
    /\ UNCHANGED << args, examples, trainVars, evalVars, predictions, mapVars >>

PostNext == EvalSelectExamples \/ EvalMap \/ EvalSelectFeatures \/ ModelPredict \/ PostProcess

SpecPost == PostInit /\ [][PostNext]_vars

\* ------------------------------------------------------- main: the setup
\* A file name is the sequence of its "."-separated parts; None is << >>.
\* train_file.split(".")[-1]
Extension(file) == file[1][Len(file[1])]

\* extension in ["csv", "json"], for a file that is given.
HasDataExtension(file) == file = None \/ Extension(file) \in {"csv", "json"}

\* DataTrainingArguments.__post_init__: the exception it raises, or "none".
PostInitCheck(a) ==
    IF a.dataset_name = None /\ a.train_file = None
          /\ a.validation_file = None /\ a.test_file = None
    THEN "ValueError"
    ELSE IF ~HasDataExtension(a.train_file) THEN "AssertionError"
    ELSE IF ~HasDataExtension(a.validation_file) THEN "AssertionError"
    ELSE IF ~HasDataExtension(a.test_file) THEN "AssertionError"
    ELSE "none"

\* min(data_args.max_seq_length, tokenizer.model_max_length)
GetMaxSeqLength(a) == Min2(a.max_seq_length, a.model_max_length)

DataFiles == { None, << << "dev", "json" >> >>, << << "dev", "v2", "txt" >> >> }

SetupArgs ==
    [pad_on_right : BOOLEAN,
     max_seq_length : { PostSeqLength(1), PostSeqLength(2), PostSeqLength(3) },
     model_max_length : { PostSeqLength(1), PostSeqLength(2) },
     doc_stride : 0..(MaxStride + 2), pad_to_max_length : {FALSE},
     stage : {"eval"}, max_samples : { None },
     version_2_with_negative : {FALSE}, n_best_size : 1..MaxNBest,
     max_answer_length : -1..MaxAnswerLength, null_score_diff_threshold : {0},
     fallback : {"zero"},
     dataset_name : { None, << "squad" >> }, train_file : { None },
     validation_file : DataFiles, test_file : { None }]

\* The arguments as parsed from the command line; the datasets they name.
SetupInit ==
    /\ pc = "setup"
    /\ examples \in PostSplits
    /\ args \in SetupArgs
    /\ GetMaxSeqLength(args) = PostSeqLength(2) => (Len(examples) = 1 /\ examples[1].nctx = 2)
    /\ (args.dataset_name # None) => (args.validation_file # << << "dev", "json" >> >>)
    /\ tokenized_examples = << >>
    /\ i = 0
    /\ start_positions = << >>
    /\ end_positions = << >>
    /\ eval_examples = << >>
    /\ eval_dataset = << >>
    /\ predictions = << >>
    /\ extracted = << >>
    /\ eval_prediction = << >>
    /\ batches = << >>
    /\ outputs = << >>
    /\ train_dataset = << >>

\* main, from __parse_args to max_seq_length = __get_max_seq_length(...).
Setup ==
    /\ pc = "setup"
    /\ IF PostInitCheck(args) # "none"
       THEN pc' = PostInitCheck(args) /\ args' = args
       ELSE /\ pc' = "eval_call"
            /\ args' = [args EXCEPT !.max_seq_length = GetMaxSeqLength(args)]
    /\ UNCHANGED << examples, trainVars, evalVars, postVars, mapVars >>

SetupNext ==
    Setup \/ EvalSelectExamples \/ EvalMap \/ EvalSelectFeatures \/ ModelPredict \/ PostProcess

SpecSetup == SetupInit /\ [][SetupNext]_vars

\* ------------------------------------------- dataset.map(..., batched=True)
\* The ways to cut rows from..n into consecutive batches.
RECURSIVE Partitions(_, _)
Partitions(from, n) ==
    IF from > n THEN { << >> }
    ELSE UNION { { << << from, to >> >> \o rest : rest \in Partitions(to + 1, n) } :
                 to \in from..n }

\* Gold answers that are one token of the context, and for the one-token
\* context no answer and the empty answer text at offset 0.
MapAnswers(nctx) ==
    (IF nctx = 1 THEN { NoAnswers, [answer_start |-> << 0 >>, text |-> << << >> >>] }
     ELSE {})
    \cup
    { [answer_start |-> << (k - 1) * TokenChars >>,
       text |-> << Slice(ContextText(nctx, 0), (k - 1) * TokenChars, k * TokenChars) >>] :
      k \in 1..nctx }

\* The datasets of n rows: the training split has gold answers, the
\* validation split is read without them.
RECURSIVE MapDatasets(_, _)
MapDatasets(n, mode) ==
    IF n = 0 THEN { << >> }
    ELSE UNION { { Append(d, Example(Ids[n], 1, nctx, 0, a)) :
                     d \in MapDatasets(n - 1, mode),
                     a \in IF mode = "train" THEN MapAnswers(nctx) ELSE {NoAnswers} } :
                 nctx \in 1..2 }

\* split_present: the split the run preprocesses is in datasets.
\* max_samples: max_train_samples for the training split, max_eval_samples
\* for the validation split, None or a number of rows within the split.
MapArgs ==
    [pad_on_right : BOOLEAN, max_seq_length : { PostSeqLength(1), PostSeqLength(2) },
     doc_stride : {0}, pad_to_max_length : {TRUE}, mode : {"train", "eval"},
     split_present : BOOLEAN, max_samples : OptionalInts(0..MaxMapExamples)]

Pending == [error |-> "pending", rows |-> << >>]

MapInit ==
    /\ pc = "map_call"
    /\ args \in MapArgs
    /\ IF args.split_present
       THEN \E n \in 1..MaxMapExamples :
               /\ examples \in MapDatasets(n, args.mode)
               /\ args.max_samples \in OptionalInts(0..n)
       ELSE examples = << >> /\ args.max_samples = None
    /\ \A k \in 1..Len(examples) :
          TokenizerAccepts(examples[k], args.max_seq_length, args.doc_stride)
    /\ batches = << >>
    /\ outputs = << >>
    /\ train_dataset = << >>
    /\ tokenized_examples = << >>
    /\ i = 0
    /\ start_positions = << >>
    /\ end_positions = << >>
    /\ eval_examples = << >>
    /\ eval_dataset = << >>
    /\ predictions = << >>
    /\ extracted = << >>
    /\ eval_prediction = << >>

\* Up to the call of map: ValueError without the split, else the split cut
\* to its first max_samples rows, which map then cuts into batches.
MapSelect ==
    /\ pc = "map_call"
    /\ IF ~args.split_present
       THEN /\ pc' = "ValueError"
            /\ UNCHANGED << train_dataset, eval_examples, batches, outputs >>
       ELSE LET selected == SelectExamples(examples, args.max_samples)
            IN  /\ pc' = "map_running"
                /\ IF args.mode = "train"
                   THEN train_dataset' = selected /\ eval_examples' = eval_examples
                   ELSE eval_examples' = selected /\ train_dataset' = train_dataset
                /\ batches' \in Partitions(1, Len(selected))
                /\ outputs' = [b \in 1..Len(batches') |-> Pending]
    /\ UNCHANGED << args, examples, trainVars, eval_dataset, postVars >>

\* The dataset map runs over: the selected rows of the split.
MapInput == IF args.mode = "train" THEN train_dataset ELSE eval_examples

\* The rows of batch b.
BatchRows(b) == SubSeq(MapInput, batches[b][1], batches[b][2])

\* The function handed to map: prepare_train_features for the training
\* split, prepare_validation_features for the validation split.
MappedFunction(batch, a) ==
    IF a.mode = "train" THEN PrepareTrainFeatures(batch, a)
    ELSE [error |-> "none", rows |-> PrepareValidationFeatures(batch, a)]

\* A worker applies the function to one batch; the batches are taken in any
\* order.
MapBatch ==
    /\ pc = "map_running"
    /\ \E b \in 1..Len(batches) :
          /\ outputs[b] = Pending
          /\ outputs' = [outputs EXCEPT ![b] = MappedFunction(BatchRows(b), args)]
    /\ UNCHANGED << pc, args, examples, trainVars, evalVars, postVars, batches, train_dataset >>

RECURSIVE ConcatRows(_, _)
ConcatRows(outs, b) ==
    IF b > Len(outs) THEN << >> ELSE outs[b].rows \o ConcatRows(outs, b + 1)

\* map returns a worker's exception, or the batches' rows in input order,
\* which are then cut to their first max_samples rows.
MapCollect ==
    /\ pc = "map_running"
    /\ \A b \in 1..Len(batches) : outputs[b] # Pending
    /\ IF \E b \in 1..Len(batches) : outputs[b].error # "none"
       THEN /\ pc' \in { outputs[b].error : b \in { c \in 1..Len(batches) :
                                                        outputs[c].error # "none" } }
            /\ UNCHANGED << train_dataset, eval_dataset >>
       ELSE /\ pc' = "map_done"
            /\ IF args.mode = "train"
               THEN /\ train_dataset' = SelectFeatures(ConcatRows(outputs, 1), args.max_samples)
                    /\ eval_dataset' = eval_dataset
               ELSE /\ eval_dataset' = SelectFeatures(ConcatRows(outputs, 1), args.max_samples)
                    /\ train_dataset' = train_dataset
    /\ UNCHANGED << args, examples, trainVars, eval_examples, postVars, batches, outputs >>

MapNext == MapSelect \/ MapBatch \/ MapCollect

SpecMap == MapInit /\ [][MapNext]_vars

\* ------------------------------------------- claims on the training labels
\* Feature k (1-based) and the gold answers of its example.
FeatureAt(k) == tokenized_examples[k]

GoldOf(k) == examples[FeatureAt(k).sample + 1].answers

HasGold(k) == Len(GoldOf(k).answer_start) > 0

GoldStart(k) == GoldOf(k).answer_start[1]

GoldEnd(k) == GoldOf(k).answer_start[1] + Len(GoldOf(k).text[1])

\* Features whose start and end position have both been appended.
LabelledFeatures == 1..Min2(Len(start_positions), Len(end_positions))

\* The positions (0-based) of a feature holding the CLS token.
AnchorPositions(f) == { p \in 0..(Len(f.input_ids) - 1) : f.input_ids[p + 1] = "[CLS]" }

\* The positions (0-based) of a feature flagged as context tokens.
ContextPositions(f) ==
    { p \in 0..(Len(f.sequence_ids) - 1) :
        f.sequence_ids[p + 1] = (IF args.pad_on_right THEN 1 ELSE 0) }

SetMin(S) == CHOOSE x \in S : \A y \in S : x <= y

SetMax(S) == CHOOSE x \in S : \A y \in S : x >= y

\* The character range covered by the context tokens of a feature.
WindowStart(f) == f.offset_mapping[SetMin(ContextPositions(f)) + 1][1]

WindowEnd(f) == f.offset_mapping[SetMax(ContextPositions(f)) + 1][2]

GoldInWindow(k) ==
    /\ ContextPositions(FeatureAt(k)) # {}
    /\ WindowStart(FeatureAt(k)) <= GoldStart(k)
    /\ GoldEnd(k) <= WindowEnd(FeatureAt(k))

AnchorLabel(k) ==
    /\ start_positions[k] \in AnchorPositions(FeatureAt(k))
    /\ end_positions[k] \in AnchorPositions(FeatureAt(k))

TrainRaised == pc \in {"IndexError", "ValueError"}

\* C1: for an example with no gold answers every feature is labelled, and
\* labelled with start position = end position = the index of its CLS
\* token, wherever that token is and whatever the feature's offsets and
\* context flags are; labelling such a feature never raises.
C1_NoGoldLabelsAnchor ==
    /\ \A k \in LabelledFeatures : ~HasGold(k) => AnchorLabel(k)
    /\ TrainRaised => HasGold(i + 1)
    /\ pc = "train_done" => LabelledFeatures = 1..Len(tokenized_examples)

\* An example without gold answers has been labelled through: two features
\* or more, one of them with its CLS token away from position 0, one of
\* them without any context token.
C1_Witness ==
    /\ pc = "train_done"
    /\ Len(tokenized_examples) >= 2
    /\ \A k \in LabelledFeatures : ~HasGold(k)
    /\ \E k \in LabelledFeatures : 0 \notin AnchorPositions(FeatureAt(k))

\* An example without gold answers and without context tokens has been
\* labelled.
C1_WitnessNoContext ==
    /\ pc = "train_done"
    /\ \E k \in LabelledFeatures :
          ~HasGold(k) /\ ContextPositions(FeatureAt(k)) = {}

\* C2: a labelled feature of an example with a gold answer whose character
\* span is not fully contained between the start offset of the feature's
\* first context token and the end offset of its last context token has
\* both positions at the CLS index.
C2_OutOfSpanLabelsAnchor ==
    \A k \in LabelledFeatures :
        (HasGold(k) /\ ~GoldInWindow(k)) => AnchorLabel(k)

\* A labelled feature whose window holds the beginning of the gold answer
\* and not its end (the answer straddles the window's right boundary), and
\* another labelled feature of the run that the answer misses entirely.
C2_Witness ==
    /\ \E k \in LabelledFeatures :
          /\ HasGold(k) /\ ContextPositions(FeatureAt(k)) # {}
          /\ WindowStart(FeatureAt(k)) <= GoldStart(k)
          /\ GoldStart(k) < WindowEnd(FeatureAt(k))
          /\ WindowEnd(FeatureAt(k)) < GoldEnd(k)
    /\ \E k \in LabelledFeatures :
          /\ HasGold(k) /\ ContextPositions(FeatureAt(k)) # {}
          /\ WindowEnd(FeatureAt(k)) <= GoldStart(k)

\* The character span rebuilt from the label of feature k.
RebuiltSpan(k) ==
    << PyGet(FeatureAt(k).offset_mapping, start_positions[k])[1],
       PyGet(FeatureAt(k).offset_mapping, end_positions[k])[2] >>

\* The gold span starts where a context token of the feature starts and
\* ends where one ends.
GoldOnTokenBoundaries(k) ==
    /\ \E p \in ContextPositions(FeatureAt(k)) :
          FeatureAt(k).offset_mapping[p + 1][1] = GoldStart(k)
    /\ \E p \in ContextPositions(FeatureAt(k)) :
          FeatureAt(k).offset_mapping[p + 1][2] = GoldEnd(k)

\* C3: label containment round trip, on the gold answers a token label can
\* rebuild at all (non-empty, starting and ending on token boundaries): for
\* every labelled feature whose window fully contains the gold span, the
\* span (offsets[start_position].start, offsets[end_position].end) equals
\* (start_char, start_char + len(answer_text)).
C3_RoundTrip ==
    \A k \in LabelledFeatures :
        (HasGold(k) /\ GoldInWindow(k) /\ GoldOnTokenBoundaries(k)
            /\ GoldStart(k) < GoldEnd(k))
        => RebuiltSpan(k) = << GoldStart(k), GoldEnd(k) >>

\* C4: each of start_position and end_position of a labelled feature is the
\* CLS index or the index of a token flagged as a context token.
C4_LabelsAnchorOrContext ==
    \A k \in LabelledFeatures :
        /\ start_positions[k] \in AnchorPositions(FeatureAt(k)) \cup ContextPositions(FeatureAt(k))
        /\ end_positions[k] \in AnchorPositions(FeatureAt(k)) \cup ContextPositions(FeatureAt(k))

\* The character offsets of the context tokens of a feature.
ContextOffsets(f) == { f.offset_mapping[p + 1] : p \in ContextPositions(f) }

\* The context tokens present in both features of a two-feature split.
SharedOffsets == ContextOffsets(FeatureAt(1)) \cap ContextOffsets(FeatureAt(2))

GoldInOverlap ==
    /\ SharedOffsets # {}
    /\ SetMin({ o[1] : o \in SharedOffsets }) <= GoldStart(1)
    /\ GoldEnd(1) <= SetMax({ o[2] : o \in SharedOffsets })

\* C5: when the context is split into two overlapping features and the gold
\* answer lies inside the region of context tokens present in both, each of
\* the two features gets start and end positions that are indices of its
\* own context tokens.
C5_OverlapLabelledInBoth ==
    ( /\ pc = "train_done"
      /\ Len(examples) = 1
      /\ Len(tokenized_examples) = 2
      /\ HasGold(1)
      /\ GoldInOverlap )
    => \A k \in 1..2 :
          /\ start_positions[k] \in ContextPositions(FeatureAt(k))
          /\ end_positions[k] \in ContextPositions(FeatureAt(k))

\* C14: a feature without any context-flagged token never gets a label,
\* whether or not its example has gold answers, and a call that meets such a
\* feature ends with an error instead of returning.
C14_NoContextFails ==
    /\ \A k \in 1..Len(tokenized_examples) :
          ContextPositions(FeatureAt(k)) = {}
          => (k > Len(start_positions) /\ k > Len(end_positions))
    /\ pc = "train_done" =>
          \A k \in 1..Len(tokenized_examples) : ContextPositions(FeatureAt(k)) # {}

\* C16: for every labelled feature (its context offsets increase and do not
\* overlap) and every non-empty gold answer contained in the feature's
\* window, start_position <= end_position.
C16_StartNotAfterEnd ==
    \A k \in LabelledFeatures :
        (HasGold(k) /\ GoldInWindow(k) /\ GoldStart(k) < GoldEnd(k))
        => start_positions[k] <= end_positions[k]

\* The index at which the backward narrowing of token_end_index stops for
\* feature k: the last index the loop reads.
EndScanStop(k) ==
    NarrowEnd(FeatureAt(k).offset_mapping, SetMax(ContextPositions(FeatureAt(k))),
              GoldEnd(k))

\* C17: for every feature with at least one context token the scanning
\* loops end without a read outside [0, len(offsets)) and without an
\* exception, and every processed feature has got exactly one start
\* position and one end position: the two lists are equally long, as long
\* as the number of features processed, and on return as long as the number
\* of features.
C17_LoopsInRangeOneLabelEach ==
    /\ Len(start_positions) = Len(end_positions)
    /\ pc = "train_loop" => Len(start_positions) = i
    /\ pc = "train_done" => Len(start_positions) = Len(tokenized_examples)
    /\ \A k \in 1..Len(tokenized_examples) :
          ContextPositions(FeatureAt(k)) # {}
          => /\ ~(TrainRaised /\ k = i + 1)
             /\ (k <= Len(start_positions) /\ HasGold(k) /\ GoldInWindow(k))
                   => EndScanStop(k) \in 0..(Len(FeatureAt(k).offset_mapping) - 1)

\* ---------------------------------- claims on the inference feature builder
\* What the tokenizer produced for the retained examples, before masking.
EvalTokenized ==
    Tokenize(eval_examples, args.pad_on_right, args.max_seq_length,
             args.doc_stride, args.pad_to_max_length)

\* C6: every feature of prepare_validation_features has an offset sequence
\* as long as its token-id sequence; a position the tokenizer does not flag
\* as a context token holds None, and a context position keeps the
\* tokenizer's (start-char, end-char) offset.
C6_OffsetsMaskedToContext ==
    pc \in {"eval_mapped", "eval_ready"} =>
        \A k \in 1..Len(eval_dataset) :
            LET f == eval_dataset[k]
                t == EvalTokenized[k]
            IN  /\ Len(f.offset_mapping) = Len(f.input_ids)
                /\ f.input_ids = t.input_ids
                /\ \A p \in 1..Len(f.offset_mapping) :
                      IF t.sequence_ids[p] = (IF args.pad_on_right THEN 1 ELSE 0)
                      THEN f.offset_mapping[p] = t.offset_mapping[p]
                      ELSE f.offset_mapping[p] = << >>

\* Features have been built for two examples; one feature holds question
\* tokens after its context tokens (context first) and padding, and some
\* feature has at least two context tokens.
C6_Witness ==
    /\ pc = "eval_mapped"
    /\ Len(eval_examples) >= 2
    /\ \E k \in 1..Len(eval_dataset) :
          /\ ~args.pad_on_right
          /\ "[PAD]" \in { eval_dataset[k].input_ids[p] : p \in 1..Len(eval_dataset[k].input_ids) }
          /\ Cardinality({ p \in 1..Len(eval_dataset[k].offset_mapping) :
                              eval_dataset[k].offset_mapping[p] # << >> }) >= 2

\* The features the builder produced for the retained examples.
ProducedFeatures == PrepareValidationFeatures(eval_examples, args)

Range(f) == { f[k] : k \in DOMAIN f }

\* C7: once the second selection is done, every retained example comes with
\* every feature the builder produced for it.
C7_AllChunksKept ==
    pc = "eval_ready" =>
        \A e \in Range(eval_examples) :
            \A f \in Range(ProducedFeatures) :
                f.example_id = e.id => f \in Range(eval_dataset)

\* ------------------------------------------ claims on the answer extractor
\* The null scores of the features of retained example k, from the logits.
AnchorSums(k) ==
    { predictions[j].start_logits[SetMin(AnchorPositions(eval_dataset[j])) + 1]
        + predictions[j].end_logits[SetMin(AnchorPositions(eval_dataset[j])) + 1] :
      j \in { j \in 1..Len(eval_dataset) : eval_dataset[j].example_id = eval_examples[k].id } }

\* The scores of the pooled candidates recorded for example k.
PooledScores(k) == { extracted[k].nbest[j].score : j \in 1..Len(extracted[k].nbest) }

NegativeRun == pc = "post_done" /\ args.version_2_with_negative

\* C8: with negative answers enabled, the null score of an example is the
\* minimum over its features of start_logit[anchor] + end_logit[anchor], the
\* best non-null score is the top pooled candidate score, and the final
\* answer handed to the metric is the empty string exactly when
\* null_score - best_non_null_score > null_score_diff_threshold, and the
\* best non-null candidate's text otherwise.
C8_NullAnswerRule ==
    NegativeRun =>
        \A k \in 1..Len(eval_examples) :
            LET null_score == SetMin(AnchorSums(k))
                best_score == SetMax(PooledScores(k))
                text       == eval_prediction.predictions[k].prediction_text
            IN  /\ eval_prediction.predictions[k].id = eval_examples[k].id
                /\ extracted[k].null_score = null_score
                /\ extracted[k].best_non_null.score = best_score
                /\ (text = << >>) <=> (null_score - best_score > args.null_score_diff_threshold)
                /\ text # << >> => text = extracted[k].best_non_null.text

\* A negative-answer run over an example of two features with different
\* null scores and two pooled candidates or more, in which the null answer
\* wins.
C8_Witness ==
    /\ NegativeRun
    /\ \E k \in 1..Len(eval_examples) :
          /\ Cardinality(AnchorSums(k)) = 2
          /\ eval_prediction.predictions[k].prediction_text = << >>
          /\ Len(extracted[k].nbest) >= 2

\* The same, a candidate drawn from the context of the second feature wins.
C8_WitnessAnswer ==
    /\ NegativeRun
    /\ \E k \in 1..Len(eval_examples) :
          /\ Cardinality(AnchorSums(k)) = 2
          /\ eval_prediction.predictions[k].prediction_text # << >>
          /\ extracted[k].best_non_null.feature = 2
          /\ extracted[k].best_non_null.start # 0

\* C9: with negative answers enabled, the no_answer_probability emitted for
\* each example is the null probability the extractor computed for it.
C9_NullProbabilityEmitted ==
    NegativeRun =>
        \A k \in 1..Len(eval_examples) :
            eval_prediction.predictions[k].no_answer_probability
                = extracted[k].null_probability

\* The final answer of retained example k under threshold t, everything
\* else as in the run.
FinalAnswerAt(k, t) ==
    ExtractExample(eval_examples[k], eval_dataset, predictions, TRUE, args.n_best_size,
                   args.max_answer_length, t, args.fallback).text

\* C10 as stated: for fixed logits and thresholds t1 < t2, raising the
\* threshold from t1 to t2 never switches the final answer from null to
\* non-null.
C10_RaisingNeverNullToNonNull ==
    NegativeRun =>
        \A k \in 1..Len(eval_examples) :
            /\ \A t2 \in { t \in Thresholds : t > args.null_score_diff_threshold } :
                  extracted[k].text = << >> => FinalAnswerAt(k, t2) = << >>
            /\ \A t1 \in { t \in Thresholds : t < args.null_score_diff_threshold } :
                  FinalAnswerAt(k, t1) = << >> => extracted[k].text = << >>

\* C10 amended: for fixed logits and thresholds t1 < t2, raising the
\* threshold from t1 to t2 can only switch the final answer from null to
\* non-null, never from non-null to null.
C10_RaisingNeverNonNullToNull ==
    NegativeRun =>
        \A k \in 1..Len(eval_examples) :
            /\ \A t2 \in { t \in Thresholds : t > args.null_score_diff_threshold } :
                  extracted[k].text # << >> => FinalAnswerAt(k, t2) # << >>
            /\ \A t1 \in { t \in Thresholds : t < args.null_score_diff_threshold } :
                  FinalAnswerAt(k, t1) # << >> => extracted[k].text # << >>

\* A run that chose the null answer for an example to which a higher
\* threshold gives a non-null answer.
C10_Witness ==
    /\ NegativeRun
    /\ \E k \in 1..Len(eval_examples) :
          /\ extracted[k].text = << >>
          /\ \E t2 \in Thresholds :
                t2 > args.null_score_diff_threshold /\ FinalAnswerAt(k, t2) # << >>

\* The score of the best answer reported for retained example k with
\* n_best_size = n, everything else as in the run.
BestScoreAt(k, n) ==
    Pool(eval_examples[k], eval_dataset, predictions, n, args.max_answer_length,
         args.fallback)[1].score

\* The candidate answers of retained example k with n_best_size = n.
PooledCandidatesAt(k, n) ==
    UNION { FeatureCandidates(j, eval_dataset[j], predictions[j],
                              ContextText(eval_examples[k].nctx, eval_examples[k].gap),
                              n, args.max_answer_length) :
            j \in FeaturesOf(eval_examples[k], eval_dataset) }

\* No candidate survives the filter: the fallback answer is reported.
FallbackUsedAt(k, n) == PooledCandidatesAt(k, n) = {}

\* The score of the best answer the run reported for retained example k.
ReportedBestScore(k) == extracted[k].nbest[1].score

\* C11 as stated: for fixed features, logits and max_answer_length and any
\* n1 < n2, the score of the best answer reported with n_best_size = n2 is
\* greater than or equal to the one reported with n_best_size = n1, the
\* fallback answer for an empty pool at n1 included.
C11_MonotoneWithFallback ==
    pc = "post_done" =>
        \A k \in 1..Len(eval_examples) :
            /\ \A n2 \in (args.n_best_size + 1)..MaxNBest :
                  BestScoreAt(k, n2) >= ReportedBestScore(k)
            /\ \A n1 \in 1..(args.n_best_size - 1) :
                  ReportedBestScore(k) >= BestScoreAt(k, n1)

\* C11 amended: for n1 <= n2, when the candidate pool for n1 is not empty
\* (no fallback answer is used), the score of the best answer reported with
\* n_best_size = n2 is greater than or equal to the one reported with
\* n_best_size = n1.
C11_MonotoneWithoutFallback ==
    pc = "post_done" =>
        \A k \in 1..Len(eval_examples) :
            /\ \A n2 \in args.n_best_size..MaxNBest :
                  ~FallbackUsedAt(k, args.n_best_size)
                      => BestScoreAt(k, n2) >= ReportedBestScore(k)
            /\ \A n1 \in 1..args.n_best_size :
                  ~FallbackUsedAt(k, n1)
                      => ReportedBestScore(k) >= BestScoreAt(k, n1)

\* A run over an example of two features whose pool is not empty and to
\* which a larger n_best_size gives more candidate answers.
C11_Witness ==
    /\ pc = "post_done"
    /\ \E k \in 1..Len(eval_examples) :
          /\ Cardinality(FeaturesOf(eval_examples[k], eval_dataset)) = 2
          /\ ~FallbackUsedAt(k, args.n_best_size)
          /\ \E n2 \in (args.n_best_size + 1)..MaxNBest :
                PooledCandidatesAt(k, n2) # PooledCandidatesAt(k, args.n_best_size)

\* A run that reported the fallback answer for an empty pool, to which a
\* larger n_best_size gives a candidate answer.
C11_WitnessFallback ==
    /\ pc = "post_done"
    /\ \E k \in 1..Len(eval_examples) :
          /\ FallbackUsedAt(k, args.n_best_size)
          /\ \E n2 \in (args.n_best_size + 1)..MaxNBest : ~FallbackUsedAt(k, n2)

\* Position p (0-based) of the tokenized feature is flagged as a context
\* token.
IsContextToken(tokenized, p) ==
    tokenized.sequence_ids[p + 1] = (IF args.pad_on_right THEN 1 ELSE 0)

\* The (start-index, end-index) pair comes from the top-n_best shortlists of
\* feature j and meets the three conditions.
AdmissiblePair(tokenized, j, s, e) ==
    /\ s \in TopIndices(predictions[j].start_logits, args.n_best_size)
    /\ e \in TopIndices(predictions[j].end_logits, args.n_best_size)
    /\ IsContextToken(tokenized, s) /\ IsContextToken(tokenized, e)
    /\ s <= e
    /\ e - s + 1 <= args.max_answer_length

\* The pooled entry is the pseudo-answer substituted for an empty pool.
IsFallbackEntry(c) == c.text = << "[CLS]" >>

\* C12: every candidate answer in the pool of an example belongs to a
\* feature of that example and comes from a (start-index, end-index) pair of
\* that feature's top-n_best start and end shortlists such that both
\* indices are context tokens (applicable offsets), start-index <=
\* end-index and end-index - start-index + 1 <= max_answer_length; the
\* fallback pseudo-answer stands in the pool only when no such pair exists
\* in any feature of the example.
C12_CandidateFilter ==
    pc = "post_done" =>
        LET tokenized == EvalTokenized
        IN  \A k \in 1..Len(eval_examples) :
              \A m \in 1..Len(extracted[k].nbest) :
                LET c == extracted[k].nbest[m]
                IN  IF IsFallbackEntry(c)
                    THEN \A j \in 1..Len(eval_dataset) :
                            eval_dataset[j].example_id = eval_examples[k].id
                            => \A se \in (0..(Len(eval_dataset[j].input_ids) - 1))
                                          \X (0..(Len(eval_dataset[j].input_ids) - 1)) :
                                   ~AdmissiblePair(tokenized[j], j, se[1], se[2])
                    ELSE /\ c.feature \in 1..Len(eval_dataset)
                         /\ eval_dataset[c.feature].example_id = eval_examples[k].id
                         /\ AdmissiblePair(tokenized[c.feature], c.feature, c.start, c.end)

\* A run whose pool holds a candidate spanning two context tokens, while
\* the shortlists of its feature also gave the pair with the start after
\* the end.
C12_Witness ==
    /\ pc = "post_done"
    /\ \E k \in 1..Len(eval_examples) :
          \E m \in 1..Len(extracted[k].nbest) :
              LET c == extracted[k].nbest[m]
                  j == c.feature
              IN  /\ ~IsFallbackEntry(c)
                  /\ c.start < c.end
                  /\ c.end \in TopIndices(predictions[j].start_logits, args.n_best_size)
                  /\ c.start \in TopIndices(predictions[j].end_logits, args.n_best_size)

\* A run whose pool holds a candidate of a feature whose start shortlist
\* also holds an index that is no context token.
C12_WitnessNotContext ==
    /\ pc = "post_done"
    /\ \E k \in 1..Len(eval_examples) :
          \E m \in 1..Len(extracted[k].nbest) :
              /\ ~IsFallbackEntry(extracted[k].nbest[m])
              /\ \E p \in TopIndices(predictions[extracted[k].nbest[m].feature].start_logits,
                                      args.n_best_size) :
                    ~IsContextToken(EvalTokenized[extracted[k].nbest[m].feature], p)

\* A run with max_answer_length = 1 in which a pair of the shortlists was
\* left out of the pool only for being too long.
C12_WitnessTooLong ==
    /\ pc = "post_done"
    /\ args.max_answer_length = 1
    /\ \E j \in 1..Len(eval_dataset) :
          \E s \in TopIndices(predictions[j].start_logits, args.n_best_size) :
              \E e \in TopIndices(predictions[j].end_logits, args.n_best_size) :
                  /\ IsContextToken(EvalTokenized[j], s)
                  /\ IsContextToken(EvalTokenized[j], e)
                  /\ s < e

\* ------------------------------------------------- claims on the setup
\* doc_stride is not below the effective context window of some example
\* (max_seq_length minus the question's token length), or max_answer_length
\* is not positive.
ConfigInconsistent ==
    \/ \E k \in 1..Len(examples) :
          args.doc_stride >= GetMaxSeqLength(args) - examples[k].nq
    \/ args.max_answer_length <= 0

\* C13: a run with an inconsistent configuration is stopped at setup time:
\* it never produces a feature and never extracts an answer.
C13_InconsistencyRejectedAtSetup ==
    ConfigInconsistent => (eval_dataset = << >> /\ extracted = << >>)

\* ------------------------------------------------ claims on dataset.map
\* The split after the first select: the rows map is called on.
C15_Selected == SelectExamples(examples, args.max_samples)

\* C15: whatever the cut of the dataset into batches and the order the
\* batches are processed in, the rows of the batches concatenated in input
\* order are the rows the function gives for the whole dataset as one
\* batch, for the training labels and for the inference features, so the
\* preprocessed dataset is the one-batch result cut to max_samples; the
\* map fails exactly when the one-batch call raises.
C15_PartitionIndependence ==
    /\ (/\ pc \in {"map_running", "map_done"}
        /\ \A b \in 1..Len(batches) : outputs[b] # Pending /\ outputs[b].error = "none")
          => ConcatRows(outputs, 1) = MappedFunction(C15_Selected, args).rows
    /\ (pc = "map_done" /\ args.mode = "train")
          => /\ PrepareTrainFeatures(C15_Selected, args).error = "none"
             /\ train_dataset
                  = SelectFeatures(PrepareTrainFeatures(C15_Selected, args).rows,
                                   args.max_samples)
    /\ (pc = "map_done" /\ args.mode = "eval")
          => eval_dataset
               = SelectFeatures(PrepareValidationFeatures(C15_Selected, args),
                                args.max_samples)
    /\ (pc \in {"IndexError", "ValueError"} /\ args.split_present)
          => pc = PrepareTrainFeatures(C15_Selected, args).error

\* A training split cut into two batches or more, one of them holding two
\* examples with different gold answers, the second one split into two
\* features and labelled off the CLS token.
C15_Witness ==
    /\ pc = "map_done" /\ args.mode = "train"
    /\ Len(batches) >= 2
    /\ \E b \in 1..Len(batches) :
          /\ batches[b][2] = batches[b][1] + 1
          /\ C15_Selected[batches[b][1]].answers # C15_Selected[batches[b][2]].answers
          /\ C15_Selected[batches[b][2]].answers # NoAnswers
          /\ Len(outputs[b].rows) >= 3
          /\ outputs[b].rows[Len(outputs[b].rows)].start_positions
                # ClsIndex(outputs[b].rows[Len(outputs[b].rows)].input_ids)

\* The same with max_train_samples set: rows of the split are left out of
\* the map, and rows of the map's result are left out of the dataset.
C15_WitnessSelected ==
    /\ pc = "map_done" /\ args.mode = "train"
    /\ args.max_samples # None
    /\ Len(batches) >= 2
    /\ Len(C15_Selected) < Len(examples)
    /\ Len(train_dataset) < Len(ConcatRows(outputs, 1))

\* The same for the inference features: a validation split cut into two
\* batches or more, with more features than examples.
C15_WitnessEval ==
    /\ pc = "map_done" /\ args.mode = "eval"
    /\ Len(batches) >= 2
    /\ Len(eval_dataset) > Len(C15_Selected)

\* The map failed although a batch before the failing one was processed.
C15_WitnessError ==
    /\ pc = "IndexError"
    /\ Len(batches) >= 2
    /\ outputs[1].error = "none"

====
